---- MODULE Spec2Model ----
(***************************************************************************)
(* combine-mcp (Rust): the process entry (main.rs), the aggregator         *)
(* (aggregator.rs) and the stdio JSON-RPC gateway loop (server.rs).        *)
(*                                                                         *)
(* Two tasks run on the tokio runtime: main (initialize, spawn the server  *)
(* task, await ctrl-c, close, join) and the server task (server::run).     *)
(* The environment delivers input lines, closes stdin, spawns or refuses   *)
(* to spawn child processes and raises the interrupt signal.               *)
(*                                                                         *)
(* stdout is taken to be writable: write_all/flush do not fail.            *)
(***************************************************************************)
EXTENDS Integers, Sequences, FiniteSets, TLC

\* ------------------------------------------------------------- bounds
\* Number of input items the environment delivers on stdin.
MaxLines == 2
\* Number of backend names the configuration may draw from.
MaxServers == 2
\* Number of consecutive close() calls made on the aggregator.
MaxCloses == 2
\* Longest name given to sanitize_tool_name.
MaxNameLen == 3

\* ---------------------------------------------------- program constants
\* mpsc::channel::<()>(1)
ChannelCapacity == 1
ParseErrorCode == -32700
MethodNotFoundCode == -32601
InvalidParamsCode == -32602
InternalErrorCode == -32603

\* ------------------------------------------------------------ JSON data
\* A field that is not present in a JSON object.
Absent == "<absent>"
\* A JSON value that is present and is not a string.
NonString == "<non-string>"

None == <<>>
Some(v) == <<v>>

AllNames == <<"fs", "git", "fs_example_tool", "db">>
ServerNames == {AllNames[i] : i \in 1..MaxServers}

NoParams == [present |-> FALSE, name |-> Absent, arguments |-> Absent, argname |-> <<>>]
CallParams(n, a, an) == [present |-> TRUE, name |-> n, arguments |-> a, argname |-> an]

TextLine == [kind |-> "text", method |-> Absent, id |-> Absent, params |-> NoParams]
BadUtf8Line == [kind |-> "badutf8", method |-> Absent, id |-> Absent, params |-> NoParams]
ObjLine(m, i, p) == [kind |-> "obj", method |-> m, id |-> i, params |-> p]

\* The input items the environment may deliver: bytes that are not UTF-8, a
\* line that is not JSON, an object without a method, and requests of every
\* dispatched method with ids absent, null and present.
Lines ==
    { BadUtf8Line, TextLine,
      ObjLine(Absent, "1", NoParams),
      ObjLine("$/initialize", "1", NoParams),
      ObjLine("$/shutdown", "2", NoParams),
      ObjLine("$/exit", Absent, NoParams),
      ObjLine("tools/list", "null", NoParams),
      ObjLine("tools/call", "1", NoParams),
      ObjLine("tools/call", "2", CallParams(Absent, Absent, <<>>)),
      ObjLine("tools/call", "1", CallParams("sanitize_tool_name", "object", <<"a", "-", "b">>)),
      ObjLine("tools/call", Absent, CallParams("fs_example_tool", Absent, <<>>)),
      ObjLine("tools/call", "2", CallParams("nonexistent", "object", <<>>)),
      ObjLine("unknown/method", "2", NoParams) }

\* ---------------------------------------------------------- aggregator
sanitize_tool_nameFirstDashOnly(name) ==
    [i \in DOMAIN name |->
        IF name[i] = "-" /\ (\A j \in DOMAIN name : j < i => name[j] # "-")
        THEN "_" ELSE name[i]]
\* sanitize_tool_name: name.replace('-', "_")
sanitize_tool_name(name) == [i \in DOMAIN name |-> IF name[i] = "-" THEN "_" ELSE name[i]]

PrefixedNameNoServer(server_name) == "example_tool"
\* format!("{}_example_tool", server_name)
PrefixedName(server_name) == server_name \o "_example_tool"

MapInsert(m, k, v) == [x \in DOMAIN m \cup {k} |-> IF x = k THEN v ELSE m[x]]
EmptyMap == [x \in {} |-> 0]

\* The Ok(child) arm of command.spawn(): clients.insert, then tools.insert.
SpawnOk(st, server_name) ==
    [clients |-> st.clients \cup {server_name},
     tools |-> MapInsert(st.tools, PrefixedName(server_name), [name |-> server_name])]

\* The Err(e) arm of command.spawn(): log and continue with the other servers.
SpawnErrKeepsTool(st, server_name) ==
    [clients |-> st.clients,
     tools |-> MapInsert(st.tools, PrefixedName(server_name), [name |-> server_name])]
SpawnErr(st, server_name) == st

InitializeResultAllOrNothing(cl, cfg) == IF cl = cfg /\ cfg # {} THEN "ok" ELSE "err"
\* if clients.is_empty() { return Err(..) } ... Ok(())
InitializeResult(cl, cfg) == IF cl = {} THEN "err" ELSE "ok"

\* get_tools: one Tool per catalog key, then the builtin.
get_tools(tl) == DOMAIN tl \cup {"sanitize_tool_name"}

\* call_tool: the builtin is answered directly; any other name is looked up
\* in the catalog. The result is Ok(text) or Err(message).
CallOk(text) == [ok |-> TRUE, text |-> text, message |-> ""]
CallErr(message) == [ok |-> FALSE, text |-> <<>>, message |-> message]

call_toolBuiltinNeedsBackend(tl, name, arguments, argname) ==
    IF name \in DOMAIN tl
    THEN CallOk(<<"Called ", tl[name].name, " on server ", tl[name].name>>)
    ELSE IF name = "sanitize_tool_name" /\ tl # EmptyMap
         THEN IF arguments = "object" /\ argname # <<>>
              THEN CallOk(sanitize_tool_name(argname))
              ELSE CallErr("Missing required 'name' parameter for sanitize_tool_name")
         ELSE CallErr("Tool not found: " \o name)
call_toolAnonymousError(tl, name, arguments, argname) ==
    IF name = "sanitize_tool_name"
    THEN IF arguments = "object" /\ argname # <<>>
         THEN CallOk(sanitize_tool_name(argname))
         ELSE CallErr("Missing required 'name' parameter for sanitize_tool_name")
    ELSE IF name \in DOMAIN tl
         THEN CallOk(<<"Called ", tl[name].name, " on server ", tl[name].name>>)
         ELSE CallErr("Tool not found")
call_tool(tl, name, arguments, argname) ==
    IF name = "sanitize_tool_name"
    THEN IF arguments = "object" /\ argname # <<>>
         THEN CallOk(sanitize_tool_name(argname))
         ELSE CallErr("Missing required 'name' parameter for sanitize_tool_name")
    ELSE IF name \in DOMAIN tl
         THEN CallOk(<<"Called ", tl[name].name, " on server ", tl[name].name>>)
         ELSE CallErr("Tool not found: " \o name)

\* ------------------------------------------------------------- gateway
\* serde_json::from_str::<JsonRpcRequest>: an object with a string `method`;
\* `id` and `params` are Options, so an absent or null field is None.
ParseOk(line) == line.kind = "obj" /\ line.method # Absent /\ line.method # NonString

ParseRequest(line) ==
    [method |-> line.method,
     id |-> IF line.id = Absent \/ line.id = "null" THEN None ELSE Some(line.id),
     params |-> IF line.params.present THEN Some(line.params) ELSE None]

NullResult == [type |-> "null", tools |-> {}, text |-> <<>>]
ServerInfoResult == [type |-> "serverInfo", tools |-> {}, text |-> <<>>]
ToolsResult(names) == [type |-> "tools", tools |-> names, text |-> <<>>]
CallResult(text) == [type |-> "call", tools |-> {}, text |-> text]

SuccessWithNullError(id, result) ==
    [jsonrpc |-> "2.0", id |-> id, result |-> Some(result),
     error |-> Some([code |-> InternalErrorCode, message |-> ""])]
\* JsonRpcResponse::success
Success(id, result) ==
    [jsonrpc |-> "2.0", id |-> id, result |-> Some(result), error |-> None]

\* JsonRpcResponse::error
Error(id, code, message) ==
    [jsonrpc |-> "2.0", id |-> id, result |-> None,
     error |-> Some([code |-> code, message |-> message])]

method_not_foundInternalCode(id) == Error(id, InternalErrorCode, "Method not found")
method_not_found(id) == Error(id, MethodNotFoundCode, "Method not found")
internal_error(id, message) == Error(id, InternalErrorCode, message)

\* The Err(err) arm of the parse: error(json!(null), -32700, "Parse error: ..")
ParseErrorResponse == Error("null", ParseErrorCode, "Parse error")

ResponseIdAlwaysNull(request) == "null"
\* let id = request.id.clone().unwrap_or(json!(null));
ResponseId(request) == IF request.id = None THEN "null" ELSE request.id[1]

handle_list_toolsEmptyIsError(id, tl) ==
    IF tl = EmptyMap
    THEN Error(id, InternalErrorCode, "Failed to get tools")
    ELSE Success(id, ToolsResult(get_tools(tl)))
handle_list_tools(id, tl) == Success(id, ToolsResult(get_tools(tl)))

BuildCallToolRequestDefaultName(params) ==
    Some([name |-> IF params.name \in {Absent, NonString} THEN "" ELSE params.name,
          arguments |-> IF params.arguments = Absent THEN "object" ELSE params.arguments,
          argname |-> params.argname])
\* The CallToolRequest handle_call_tool builds from params, None when it
\* returns early because params has no `name`: a name that is not a string
\* becomes "" (unwrap_or_default), absent arguments become {}.
BuildCallToolRequest(params) ==
    IF params.name = Absent
    THEN None
    ELSE Some([name |-> IF params.name = NonString THEN "" ELSE params.name,
               arguments |-> IF params.arguments = Absent THEN "object" ELSE params.arguments,
               argname |-> params.argname])

handle_call_toolFailureAsInvalidParams(id, params, tl) ==
    LET request == BuildCallToolRequest(params) IN
    IF request = None
    THEN Error(id, InvalidParamsCode, "Invalid params: missing 'name' field")
    ELSE LET r == call_tool(tl, request[1].name, request[1].arguments, request[1].argname)
         IN  IF r.ok THEN Success(id, CallResult(r.text))
             ELSE Error(id, InvalidParamsCode, "Tool call failed: " \o r.message)
handle_call_tool(id, params, tl) ==
    LET request == BuildCallToolRequest(params) IN
    IF request = None
    THEN Error(id, InvalidParamsCode, "Invalid params: missing 'name' field")
    ELSE LET r == call_tool(tl, request[1].name, request[1].arguments, request[1].argname)
         IN  IF r.ok THEN Success(id, CallResult(r.text))
             ELSE Error(id, InternalErrorCode, "Tool call failed: " \o r.message)

process_request(request, tl) ==
    LET id == ResponseId(request) IN
    CASE request.method = "$/initialize" -> Success(id, ServerInfoResult)
      [] request.method = "$/shutdown" -> Success(id, NullResult)
      [] request.method = "$/exit" -> Success(id, NullResult)
      [] request.method = "tools/list" -> handle_list_tools(id, tl)
      [] request.method = "tools/call" ->
            IF request.params # None
            THEN handle_call_tool(id, request.params[1], tl)
            ELSE Error(id, InvalidParamsCode,
                       "Invalid params: params are required for tools/call")
      [] OTHER -> method_not_found(id)

\* The CallToolRequest with which process_request reaches
\* aggregator.call_tool, None when it does not call it.
CallToolInvoked(request) ==
    IF request.method = "tools/call" /\ request.params # None
    THEN BuildCallToolRequest(request.params[1])
    ELSE None

\* What call_tool writes to the stdin of child processes for a request: the
\* Some(mapping) arm returns a placeholder result and writes nothing.
Forwarded(tl, request) == {}

\* The reply call_tool reads back from the owning child for a request, None
\* when it reads none: MCPClient holds only the Child, and the Some(mapping)
\* arm builds its text from the mapping.
ReplyRead(tl, request) == None

RequestEffectForgetsCalled(st, request) ==
    [clients |-> st.clients,
     tools |-> IF request.method = "tools/call" THEN EmptyMap ELSE st.tools]
\* The session map and the catalog after a request was processed:
\* get_tools and call_tool lock the catalog and only read it.
RequestEffect(st, request) == st

KillAttemptsStopAtFailure(cl, failed) == IF failed = {} THEN cl ELSE failed
\* close(): the sessions on which kill() is called, given those whose kill()
\* fails: the loop logs an error and goes on.
KillAttempts(cl, failed) == cl

ServerStartAfterInitOkOnly(result) == IF result = "ok" THEN "select" ELSE "done"
\* main after initialize() returned `result`: an Err is logged and the server
\* task is spawned all the same.
ServerStartAfterInit(result) == "select"

\* ---------------------------------------------------------------- state
VARIABLES
    config,       \* Config.servers: the configured backend names
    attempted,    \* servers the initialize loop has already visited
    clients,      \* MCPAggregator.clients: keys of the session map
    procs,        \* child processes spawned on which close() has not called kill()
    tools,        \* MCPAggregator.tools: prefixed name -> ToolMapping
    initResult,   \* result of initialize(): "none" until it returns
    pcMain,       \* position of main
    pcSrv,        \* position of the server task (server::run)
    stdin,        \* input items delivered and not yet read
    arrived,      \* number of input items delivered so far
    eof,          \* the peer has closed stdin
    chan,         \* messages queued in the shutdown channel
    cur,          \* the line being handled (buffer)
    resp,         \* the response being written
    out,          \* chunks written to stdout
    errw,         \* tasks that have written to stderr
    nRead,        \* lines read with Ok(_) so far
    nWritten,     \* responses flushed so far
    shutdownAnswered, \* the response to a $/shutdown request has been flushed
    parseErrorAnswered, \* a parse-error response has been flushed
    invoked,      \* the CallToolRequest passed to call_tool for the line being handled
    childIn,      \* requests written to the stdin of child processes
    killAttempted, \* sessions the latest close() called kill() on
    nClose,       \* number of close() calls that have returned
    lockClients,  \* holder of the Mutex around the session map
    lockTools,    \* holder of the Mutex around the catalog
    task          \* position of each holder of the Arc<MCPAggregator> in a registry operation

vars == <<config, attempted, clients, procs, tools, initResult, pcMain, pcSrv,
          stdin, arrived, eof, chan, cur, resp, out, errw, nRead, nWritten,
          shutdownAnswered, parseErrorAnswered, invoked, childIn, killAttempted,
          nClose, lockClients, lockTools, task>>

lockVars == <<lockClients, lockTools, task>>

aggVars == <<config, attempted, clients, procs, tools, initResult, childIn,
             killAttempted, nClose>>
ioVars == <<stdin, arrived, eof>>
srvVars == <<pcSrv, chan, cur, resp, nRead, nWritten, shutdownAnswered, parseErrorAnswered,
             invoked>>

\* ------------------------------------------------------------- logging
LogStreamStdout == "stdout"
\* fmt::layer().with_writer(std::io::stderr)
LogStream == "stderr"

\* stdout after task w emits a diagnostic event.
Logged(o, w) ==
    IF LogStream = "stdout"
    THEN Append(o, [w |-> w, n |-> 0, part |-> "log", line |-> 0])
    ELSE o
ErrLogged(e, w) == IF LogStream = "stderr" THEN e \cup {w} ELSE e

Log(w) == /\ out' = Logged(out, w)
          /\ errw' = ErrLogged(errw, w)

\* ---------------------------------------------------------------- init
\* The two tasks that hold the Arc<MCPAggregator>.
Callers == {"main", "server"}
NoHolder == "none"
IdleTask == [pc |-> "idle", todo |-> {}, server |-> ""]

NoLine == [kind |-> "none", method |-> Absent, id |-> Absent, params |-> NoParams]
NoResponse == [jsonrpc |-> "", id |-> "", result |-> None, error |-> None]

Init ==
    /\ config \in SUBSET ServerNames
    /\ attempted = {}
    /\ clients = {}
    /\ procs = {}
    /\ tools = EmptyMap
    /\ initResult = "none"
    /\ pcMain = "initialize"
    /\ pcSrv = "idle"
    /\ stdin = <<>>
    /\ arrived = 0
    /\ eof = FALSE
    /\ chan = 0
    /\ cur = NoLine
    /\ resp = NoResponse
    /\ out = <<>>
    /\ errw = {}
    /\ nRead = 0
    /\ nWritten = 0
    /\ shutdownAnswered = FALSE
    /\ parseErrorAnswered = FALSE
    /\ invoked = None
    /\ childIn = {}
    /\ killAttempted = {}
    /\ nClose = 0
    /\ lockClients = NoHolder
    /\ lockTools = NoHolder
    /\ task = [t \in Callers |-> IdleTask]

\* ---------------------------------------------------------------- main
\* One iteration of the loop of initialize() over config.servers (a HashMap:
\* any order). The environment decides whether command.spawn() succeeds.
InitializeSpawn(server_name, spawned) ==
    /\ pcMain = "initialize"
    /\ server_name \in config \ attempted
    /\ LET st == [clients |-> clients, tools |-> tools]
           nx == IF spawned THEN SpawnOk(st, server_name) ELSE SpawnErr(st, server_name)
       IN  /\ clients' = nx.clients
           /\ tools' = nx.tools
    /\ procs' = IF spawned THEN procs \cup {server_name} ELSE procs
    /\ attempted' = attempted \cup {server_name}
    /\ Log("main")
    /\ UNCHANGED <<config, initResult, pcMain, childIn, killAttempted, nClose>>
    /\ UNCHANGED ioVars
    /\ UNCHANGED srvVars
    /\ UNCHANGED lockVars

\* The loop is over: initialize() returns; main logs a failure and goes on,
\* spawns the server task and awaits ctrl-c.
InitializeReturn ==
    /\ pcMain = "initialize"
    /\ attempted = config
    /\ initResult' = InitializeResult(clients, config)
    /\ pcMain' = "wait_ctrlc"
    /\ pcSrv' = ServerStartAfterInit(initResult')
    /\ Log("main")
    /\ UNCHANGED <<config, attempted, clients, procs, tools, childIn, killAttempted, nClose>>
    /\ UNCHANGED ioVars
    /\ UNCHANGED <<chan, cur, resp, nRead, nWritten, shutdownAnswered, parseErrorAnswered,
                   invoked>>
    /\ UNCHANGED lockVars

\* signal::ctrl_c().await returns: the interrupt arrived, or listening failed.
\* Either way main goes on to close the aggregator.
AwaitCtrlC ==
    /\ pcMain = "wait_ctrlc"
    /\ pcMain' = "close_clients"
    /\ Log("main")
    /\ UNCHANGED aggVars
    /\ UNCHANGED ioVars
    /\ UNCHANGED srvVars
    /\ UNCHANGED lockVars

CloseClientsAtKeepsMap(from, to, failed) ==
    /\ pcMain = from
    /\ failed \subseteq clients
    /\ killAttempted' = KillAttempts(clients, failed)
    /\ procs' = procs \ killAttempted'
    /\ pcMain' = to
    /\ Log("main")
    /\ UNCHANGED <<config, attempted, clients, tools, initResult, childIn, nClose>>
    /\ UNCHANGED ioVars
    /\ UNCHANGED srvVars
    /\ UNCHANGED lockVars
\* close(): under the clients lock, call kill() on every child (the
\* environment decides for which of them it fails: the error is logged or,
\* for a child that already exited, ignored) and clear the map.
CloseClientsAt(from, to, failed) ==
    /\ pcMain = from
    /\ failed \subseteq clients
    /\ killAttempted' = KillAttempts(clients, failed)
    /\ procs' = procs \ killAttempted'
    /\ clients' = {}
    /\ pcMain' = to
    /\ Log("main")
    /\ UNCHANGED <<config, attempted, tools, initResult, childIn, nClose>>
    /\ UNCHANGED ioVars
    /\ UNCHANGED srvVars
    /\ UNCHANGED lockVars

\* close(): take the tools lock, clear the catalog, return Ok(()).
CloseToolsAt(from, to) ==
    /\ pcMain = from
    /\ tools' = EmptyMap
    /\ nClose' = nClose + 1
    /\ pcMain' = to
    /\ Log("main")
    /\ UNCHANGED <<config, attempted, clients, procs, initResult, childIn, killAttempted>>
    /\ UNCHANGED ioVars
    /\ UNCHANGED srvVars
    /\ UNCHANGED lockVars

\* aggregator.close() as main calls it after ctrl-c.
CloseClients(failed) == CloseClientsAt("close_clients", "close_tools", failed)
CloseTools == CloseToolsAt("close_tools", "join")

\* server_handle.await completes once the server task has finished.
Join ==
    /\ pcMain = "join"
    /\ pcSrv = "done"
    /\ pcMain' = "exit"
    /\ Log("main")
    /\ UNCHANGED aggVars
    /\ UNCHANGED ioVars
    /\ UNCHANGED srvVars
    /\ UNCHANGED lockVars

\* --------------------------------------------------------- environment
\* The caller writes one more item to the gateway's stdin.
Arrive(line) ==
    /\ pcSrv \notin {"idle", "done"}
    /\ ~eof
    /\ arrived < MaxLines
    /\ stdin' = Append(stdin, line)
    /\ arrived' = arrived + 1
    /\ UNCHANGED eof
    /\ UNCHANGED aggVars
    /\ UNCHANGED srvVars
    /\ UNCHANGED <<pcMain, out, errw>>
    /\ UNCHANGED lockVars

\* The caller closes the gateway's stdin.
CloseStdin ==
    /\ pcSrv \notin {"idle", "done"}
    /\ ~eof
    /\ eof' = TRUE
    /\ UNCHANGED <<stdin, arrived>>
    /\ UNCHANGED aggVars
    /\ UNCHANGED srvVars
    /\ UNCHANGED <<pcMain, out, errw>>
    /\ UNCHANGED lockVars

\* ---------------------------------------------------------- server task
\* select!: read_line completes with Ok(n), n > 0. The line is parsed; a
\* parse failure builds the parse-error response, a $/shutdown request goes
\* on to shutdown_tx.send(()).await, any other request is processed.
\* process_request(&mut aggregator, request): the response, the CallToolRequest
\* that reached call_tool, what call_tool wrote to children, and the registry
\* afterwards.
Dispatch(request) ==
    /\ resp' = process_request(request, tools)
    /\ invoked' = CallToolInvoked(request)
    /\ childIn' = childIn \cup (IF invoked' = None THEN {} ELSE Forwarded(tools, invoked'[1]))
    /\ LET st == RequestEffect([clients |-> clients, tools |-> tools], request) IN
       /\ clients' = st.clients
       /\ tools' = st.tools
    /\ UNCHANGED <<config, attempted, procs, initResult, killAttempted, nClose>>

ReadLine ==
    /\ pcSrv = "select"
    /\ stdin # <<>>
    /\ Head(stdin).kind # "badutf8"
    /\ LET line == Head(stdin) IN
       /\ stdin' = Tail(stdin)
       /\ cur' = line
       /\ nRead' = nRead + 1
       /\ IF ~ParseOk(line)
          THEN /\ resp' = ParseErrorResponse
               /\ pcSrv' = "write_body"
               /\ UNCHANGED invoked
               /\ UNCHANGED aggVars
          ELSE IF ParseRequest(line).method = "$/shutdown"
          THEN /\ resp' = NoResponse
               /\ pcSrv' = "send"
               /\ UNCHANGED invoked
               /\ UNCHANGED aggVars
          ELSE /\ Dispatch(ParseRequest(line))
               /\ pcSrv' = "write_body"
    /\ Log("server")
    /\ UNCHANGED <<arrived, eof, chan, nWritten, shutdownAnswered, parseErrorAnswered, pcMain>>
    /\ UNCHANGED lockVars

\* select!: read_line completes with Err(e) (the bytes are not valid UTF-8):
\* the loop breaks.
ReadError ==
    /\ pcSrv = "select"
    /\ stdin # <<>>
    /\ Head(stdin).kind = "badutf8"
    /\ stdin' = Tail(stdin)
    /\ pcSrv' = "done"
    /\ Log("server")
    /\ UNCHANGED <<arrived, eof, chan, cur, resp, nRead, nWritten, shutdownAnswered, parseErrorAnswered, pcMain,
                   invoked>>
    /\ UNCHANGED aggVars
    /\ UNCHANGED lockVars

\* select!: read_line completes with Ok(0): end of input, the loop breaks.
ReadEof ==
    /\ pcSrv = "select"
    /\ stdin = <<>>
    /\ eof
    /\ pcSrv' = "done"
    /\ Log("server")
    /\ UNCHANGED <<chan, cur, resp, nRead, nWritten, shutdownAnswered, parseErrorAnswered, pcMain,
                   invoked>>
    /\ UNCHANGED ioVars
    /\ UNCHANGED aggVars
    /\ UNCHANGED lockVars

\* select!: shutdown_rx.recv() completes: the loop breaks.
RecvShutdown ==
    /\ pcSrv = "select"
    /\ chan > 0
    /\ chan' = chan - 1
    /\ pcSrv' = "done"
    /\ Log("server")
    /\ UNCHANGED <<cur, resp, nRead, nWritten, shutdownAnswered, parseErrorAnswered, pcMain,
                   invoked>>
    /\ UNCHANGED ioVars
    /\ UNCHANGED aggVars
    /\ UNCHANGED lockVars

\* shutdown_tx.send(()).await completes when the channel has room; then the
\* request is processed.
SendShutdown ==
    /\ pcSrv = "send"
    /\ chan < ChannelCapacity
    /\ chan' = chan + 1
    /\ Dispatch(ParseRequest(cur))
    /\ pcSrv' = "write_body"
    /\ UNCHANGED <<cur, nRead, nWritten, shutdownAnswered, parseErrorAnswered, pcMain, out, errw>>
    /\ UNCHANGED ioVars
    /\ UNCHANGED lockVars

\* stdout.write_all(response_str.as_bytes())
WriteBody ==
    /\ pcSrv = "write_body"
    /\ out' = Append(Logged(out, "server"),
                     [w |-> "server", n |-> nWritten + 1, part |-> "json", line |-> nRead])
    /\ errw' = ErrLogged(errw, "server")
    /\ pcSrv' = "write_nl"
    /\ UNCHANGED <<chan, cur, resp, nRead, nWritten, shutdownAnswered, parseErrorAnswered, pcMain,
                   invoked>>
    /\ UNCHANGED ioVars
    /\ UNCHANGED aggVars
    /\ UNCHANGED lockVars

WriteNewlineSkipsFlush ==
    /\ pcSrv = "write_nl"
    /\ out' = Append(out, [w |-> "server", n |-> nWritten + 1, part |-> "nl", line |-> nRead])
    /\ pcSrv' = "select"
    /\ UNCHANGED <<chan, cur, resp, nRead, nWritten, shutdownAnswered, parseErrorAnswered, pcMain, errw,
                   invoked>>
    /\ UNCHANGED ioVars
    /\ UNCHANGED aggVars
    /\ UNCHANGED lockVars
\* stdout.write_all(b"\n")
WriteNewline ==
    /\ pcSrv = "write_nl"
    /\ out' = Append(out, [w |-> "server", n |-> nWritten + 1, part |-> "nl", line |-> nRead])
    /\ pcSrv' = "flush"
    /\ UNCHANGED <<chan, cur, resp, nRead, nWritten, shutdownAnswered, parseErrorAnswered, pcMain, errw,
                   invoked>>
    /\ UNCHANGED ioVars
    /\ UNCHANGED aggVars
    /\ UNCHANGED lockVars

\* stdout.flush(); the iteration ends and the loop selects again.
Flush ==
    /\ pcSrv = "flush"
    /\ nWritten' = nWritten + 1
    /\ shutdownAnswered' = (shutdownAnswered \/ (ParseOk(cur) /\ cur.method = "$/shutdown"))
    /\ parseErrorAnswered' = (parseErrorAnswered \/ ~ParseOk(cur))
    /\ cur' = NoLine
    /\ resp' = NoResponse
    /\ invoked' = None
    /\ pcSrv' = "select"
    /\ UNCHANGED <<chan, nRead, pcMain, out, errw>>
    /\ UNCHANGED ioVars
    /\ UNCHANGED aggVars
    /\ UNCHANGED lockVars

\* --------------------------------------------------------- specification
MainNext ==
    \/ \E server_name \in ServerNames, spawned \in BOOLEAN :
          InitializeSpawn(server_name, spawned)
    \/ InitializeReturn
    \/ AwaitCtrlC
    \/ \E failed \in SUBSET ServerNames : CloseClients(failed)
    \/ CloseTools
    \/ Join

\* Steps of main that the runtime takes by itself (the interrupt is the
\* environment's).
MainProgress ==
    \/ \E server_name \in ServerNames, spawned \in BOOLEAN :
          InitializeSpawn(server_name, spawned)
    \/ InitializeReturn
    \/ \E failed \in SUBSET ServerNames : CloseClients(failed)
    \/ CloseTools
    \/ Join

ServerNext ==
    \/ ReadLine
    \/ ReadError
    \/ ReadEof
    \/ RecvShutdown
    \/ SendShutdown
    \/ WriteBody
    \/ WriteNewline
    \/ Flush

EnvNext ==
    \/ \E line \in Lines : Arrive(line)
    \/ CloseStdin

Next == MainNext \/ ServerNext \/ EnvNext

Spec == Init /\ [][Next]_vars

\* The runtime runs every task that can make progress; the environment owes
\* nothing (no input, no end of input, no interrupt).
FairSpec == Spec /\ WF_vars(MainProgress) /\ WF_vars(ServerNext)

\* ----------------------------------------------- the aggregator's own API
\* MCPAggregator driven directly through its public methods (initialize,
\* get_tools / call_tool through process_request, close), in any order and
\* close() repeatedly: the calls a holder of the aggregator can make.

\* The requests handed to process_request: the parsed lines, and a tools/call
\* whose `name` is a JSON number.
ApiLines ==
    Lines \cup {ObjLine("tools/call", "1", CallParams(NonString, "object", <<>>))}

\* initialize() returns to a caller that goes on using the aggregator.
ApiInitializeReturn ==
    /\ pcMain = "initialize"
    /\ attempted = config
    /\ initResult' = InitializeResult(clients, config)
    /\ pcMain' = "api"
    /\ Log("main")
    /\ UNCHANGED <<config, attempted, clients, procs, tools, childIn, killAttempted, nClose>>
    /\ UNCHANGED ioVars
    /\ UNCHANGED srvVars
    /\ UNCHANGED lockVars

\* close() called on the aggregator, at most MaxCloses times.
ApiCloseClients(failed) ==
    /\ nClose < MaxCloses
    /\ CloseClientsAt("api", "api_close_tools", failed)

ApiCloseTools == CloseToolsAt("api_close_tools", "api")

\* process_request on a parsed request, whatever the registry holds (before
\* initialize, after a failed one, after close); nRead counts the requests.
ApiRequest(line) ==
    /\ pcMain \in {"initialize", "api"}
    /\ nRead < MaxLines
    /\ ParseOk(line)
    /\ cur' = line
    /\ nRead' = nRead + 1
    /\ Dispatch(ParseRequest(line))
    /\ Log("server")
    /\ UNCHANGED <<pcMain, pcSrv, chan, nWritten, shutdownAnswered, parseErrorAnswered>>
    /\ UNCHANGED ioVars
    /\ UNCHANGED lockVars

ApiNext ==
    \/ \E server_name \in ServerNames, spawned \in BOOLEAN :
          InitializeSpawn(server_name, spawned)
    \/ ApiInitializeReturn
    \/ \E failed \in SUBSET ServerNames : ApiCloseClients(failed)
    \/ ApiCloseTools
    \/ \E line \in ApiLines : ApiRequest(line)

ApiSpec == Init /\ [][ApiNext]_vars

\* ------------------------------------------------- sanitize_tool_name alone
\* The builtin tool called with every short name over a letter, the dash and
\* the underscore, and then again with its own output.
NameChars == {"a", "-", "_"}
Names == UNION {[1..n -> NameChars] : n \in 1..MaxNameLen}
SanitizeLine(name) ==
    ObjLine("tools/call", "1", CallParams("sanitize_tool_name", "object", name))

SanitizeFresh(name) ==
    /\ nRead = 0
    /\ ApiRequest(SanitizeLine(name))

SanitizeAgain ==
    /\ nRead >= 1
    /\ resp.result # None
    /\ ApiRequest(SanitizeLine(resp.result[1].text))

SanitizeNext ==
    \/ \E name \in Names : SanitizeFresh(name)
    \/ SanitizeAgain

SanitizeSpec == Init /\ [][SanitizeNext]_vars

\* ------------------------------------------------- the registry's locks
\* initialize, get_tools, call_tool and close called by the holders of the
\* aggregator in any order and interleaving, each lock().await, each step
\* under a lock and each release (the guard going out of scope) a step of
\* its own. The history counters of main are not kept here.

CloseLockOrderCatalogFirst == <<"tools", "clients">>
\* close(): self.clients.lock().await, and later self.tools.lock().await
\* with the first guard still alive.
CloseLockOrder == <<"clients", "tools">>

Holder(lock) == IF lock = "clients" THEN lockClients ELSE lockTools
SetTask(t, pc, todo, server) ==
    task' = [task EXCEPT ![t] = [pc |-> pc, todo |-> todo, server |-> server]]
Goto(t, pc) == SetTask(t, pc, task[t].todo, task[t].server)
\* A lock().await that completes: the mutex is free and t becomes its holder.
Acquire(t, lock) ==
    /\ Holder(lock) = NoHolder
    /\ IF lock = "clients"
       THEN lockClients' = t /\ UNCHANGED lockTools
       ELSE lockTools' = t /\ UNCHANGED lockClients
lockFrame == <<config, attempted, initResult, pcMain, pcSrv, stdin, arrived, eof, chan,
               cur, resp, out, errw, nRead, nWritten, shutdownAnswered,
               parseErrorAnswered, invoked, childIn, nClose>>

\* A holder of the aggregator calls one of its methods.
LkCall(t, op) ==
    /\ task[t].pc = "idle"
    /\ Goto(t, op)
    /\ UNCHANGED <<lockClients, lockTools, clients, procs, tools, killAttempted>>
    /\ UNCHANGED lockFrame

\* initialize(): let mut clients = self.clients.lock().await
LkInitLock(t) ==
    /\ task[t].pc = "init_lock"
    /\ Acquire(t, "clients")
    /\ SetTask(t, "init_loop", config, "")
    /\ UNCHANGED <<clients, procs, tools, killAttempted>>
    /\ UNCHANGED lockFrame

\* initialize(): one iteration up to command.spawn() and clients.insert.
LkInitSpawn(t, server_name, spawned) ==
    /\ task[t].pc = "init_loop"
    /\ server_name \in task[t].todo
    /\ IF spawned
       THEN /\ clients' = SpawnOk([clients |-> clients, tools |-> tools], server_name).clients
            /\ procs' = procs \cup {server_name}
            /\ SetTask(t, "init_tools", task[t].todo \ {server_name}, server_name)
       ELSE /\ clients' = SpawnErr([clients |-> clients, tools |-> tools], server_name).clients
            /\ procs' = procs
            /\ SetTask(t, "init_loop", task[t].todo \ {server_name}, "")
    /\ UNCHANGED <<lockClients, lockTools, tools, killAttempted>>
    /\ UNCHANGED lockFrame

\* initialize(): let mut tools = self.tools.lock().await
LkInitToolsLock(t) ==
    /\ task[t].pc = "init_tools"
    /\ Acquire(t, "tools")
    /\ Goto(t, "init_insert")
    /\ UNCHANGED <<clients, procs, tools, killAttempted>>
    /\ UNCHANGED lockFrame

\* initialize(): tools.insert; the tools guard is dropped at the end of the arm.
LkInitInsert(t) ==
    /\ task[t].pc = "init_insert"
    /\ tools' = SpawnOk([clients |-> clients, tools |-> tools], task[t].server).tools
    /\ lockTools' = NoHolder
    /\ SetTask(t, "init_loop", task[t].todo, "")
    /\ UNCHANGED <<lockClients, clients, procs, killAttempted>>
    /\ UNCHANGED lockFrame

\* initialize(): the loop is over; it returns and the clients guard is dropped.
LkInitReturn(t) ==
    /\ task[t].pc = "init_loop"
    /\ task[t].todo = {}
    /\ lockClients' = NoHolder
    /\ Goto(t, "idle")
    /\ UNCHANGED <<lockTools, clients, procs, tools, killAttempted>>
    /\ UNCHANGED lockFrame

\* get_tools() and call_tool() for a name other than the builtin:
\* self.tools.lock().await
LkReadLock(t) ==
    /\ task[t].pc \in {"get_tools", "call_tool"}
    /\ Acquire(t, "tools")
    /\ Goto(t, "read")
    /\ UNCHANGED <<clients, procs, tools, killAttempted>>
    /\ UNCHANGED lockFrame

\* get_tools() / call_tool(): the catalog is read, the result returned and
\* the guard dropped.
LkReadReturn(t) ==
    /\ task[t].pc = "read"
    /\ lockTools' = NoHolder
    /\ Goto(t, "idle")
    /\ UNCHANGED <<lockClients, clients, procs, tools, killAttempted>>
    /\ UNCHANGED lockFrame

\* call_tool() for the builtin: answered without any lock.
LkCallBuiltin(t) ==
    /\ task[t].pc = "call_builtin"
    /\ Goto(t, "idle")
    /\ UNCHANGED <<lockClients, lockTools, clients, procs, tools, killAttempted>>
    /\ UNCHANGED lockFrame

\* close(): what is done under a lock once it is held: the kill() loop and
\* clients.clear() under the session-map lock, tools.clear() under the
\* catalog lock.
ClearUnder(lock, failed) ==
    IF lock = "clients"
    THEN /\ failed \subseteq clients
         /\ killAttempted' = KillAttempts(clients, failed)
         /\ procs' = procs \ killAttempted'
         /\ clients' = {}
         /\ UNCHANGED tools
    ELSE /\ failed = {}
         /\ tools' = EmptyMap
         /\ UNCHANGED <<clients, procs, killAttempted>>

\* close(): the first lock().await
LkCloseLock1(t) ==
    /\ task[t].pc = "close_lock1"
    /\ Acquire(t, CloseLockOrder[1])
    /\ Goto(t, "close_work1")
    /\ UNCHANGED <<clients, procs, tools, killAttempted>>
    /\ UNCHANGED lockFrame

LkCloseWork1(t, failed) ==
    /\ task[t].pc = "close_work1"
    /\ ClearUnder(CloseLockOrder[1], failed)
    /\ Goto(t, "close_lock2")
    /\ UNCHANGED <<lockClients, lockTools>>
    /\ UNCHANGED lockFrame

\* close(): the second lock().await, the first guard still held.
LkCloseLock2(t) ==
    /\ task[t].pc = "close_lock2"
    /\ Acquire(t, CloseLockOrder[2])
    /\ Goto(t, "close_work2")
    /\ UNCHANGED <<clients, procs, tools, killAttempted>>
    /\ UNCHANGED lockFrame

\* close(): the second map is cleared, Ok(()) returned, both guards dropped.
LkCloseWork2(t, failed) ==
    /\ task[t].pc = "close_work2"
    /\ ClearUnder(CloseLockOrder[2], failed)
    /\ lockClients' = NoHolder
    /\ lockTools' = NoHolder
    /\ Goto(t, "idle")
    /\ UNCHANGED lockFrame

\* The first position of each registry operation.
LockOps == {"init_lock", "get_tools", "call_tool", "call_builtin", "close_lock1"}

\* The steps task t takes by itself once it is inside an operation.
LkContinue(t) ==
    \/ LkInitLock(t)
    \/ \E server_name \in ServerNames, spawned \in BOOLEAN :
          LkInitSpawn(t, server_name, spawned)
    \/ LkInitToolsLock(t)
    \/ LkInitInsert(t)
    \/ LkInitReturn(t)
    \/ LkReadLock(t)
    \/ LkReadReturn(t)
    \/ LkCallBuiltin(t)
    \/ LkCloseLock1(t)
    \/ \E failed \in SUBSET ServerNames : LkCloseWork1(t, failed)
    \/ LkCloseLock2(t)
    \/ \E failed \in SUBSET ServerNames : LkCloseWork2(t, failed)

LockNext ==
    \E t \in Callers :
        \/ \E op \in LockOps : LkCall(t, op)
        \/ LkContinue(t)

LockSpec == Init /\ [][LockNext]_vars

\* The runtime runs every task that is not waiting, and tokio's Mutex hands
\* the lock to its waiters in the order they asked: a task inside an
\* operation takes its next step if that step is possible again and again.
LockFairSpec == LockSpec /\ \A t \in Callers : SF_vars(LkContinue(t))

\* ---------------------------------------------------------------- claims
\* The server task is handling a line it has read.
Handling == pcSrv \in {"send", "write_body", "write_nl", "flush"}
\* The server task holds a built response that it is writing.
Writing == pcSrv \in {"write_body", "write_nl", "flush"}
\* The id a response to `line` must carry: the line's id, null when it has none.
LineId(line) == IF line.id = Absent THEN "null" ELSE line.id
\* main has returned from initialize() and not yet from ctrl_c().await.
Initialized == pcMain = "wait_ctrlc"
\* main has returned from ctrl_c().await.
Interrupted == pcMain \in {"close_clients", "close_tools", "join", "exit"}
\* The backends that own an entry of the catalog.
Owners == {tools[k].name : k \in DOMAIN tools}

\* C1: every line the gateway reads while Running produces exactly one
\* response line: never more responses than lines read, and the n-th line
\* read is eventually followed by the n-th response.
C1_OneResponsePerLine ==
    /\ [](nWritten <= nRead)
    /\ \A n \in 1..MaxLines : [](nRead = n => <>(nWritten = n))

\* C2: a line that cannot be parsed as a request envelope yields one error
\* response with code -32700 and a null id and the gateway stays Running:
\* the step that takes such a line off the input goes on to write that
\* response, and leaves the shutdown channel alone.
C2_UnparsableLineAnswered ==
    [][(pcSrv = "select" /\ stdin # <<>> /\ ~ParseOk(Head(stdin)) /\ stdin' = Tail(stdin)) =>
          /\ pcSrv' = "write_body"
          /\ resp' = Error("null", -32700, "Parse error")
          /\ chan' = chan]_vars

\* C2, for the lines read_line returns (valid UTF-8): such a line that
\* from_str rejects gets the error response with code -32700 and a null id;
\* handling it leaves the loop Running (back at select, shutdown channel and
\* pending input untouched), and a valid request handled after it gets the
\* response process_request builds for it, with its own id.
C2_ParseErrorKeepsRunning ==
    /\ [](Writing /\ ~ParseOk(cur) =>
            /\ resp.id = "null"
            /\ resp.result = None
            /\ resp.error = Some([code |-> -32700, message |-> "Parse error"]))
    /\ [][(pcSrv = "flush" /\ ~ParseOk(cur) /\ pcSrv' # pcSrv) =>
            (pcSrv' = "select" /\ chan' = chan /\ stdin' = stdin)]_vars
    /\ [](parseErrorAnswered /\ Writing /\ ParseOk(cur) =>
            /\ resp # NoResponse
            /\ resp # ParseErrorResponse
            /\ resp.id = LineId(cur))

\* A valid request is being answered after a parse error was answered.
C2_Witness ==
    /\ parseErrorAnswered
    /\ pcSrv = "flush"
    /\ ParseOk(cur)
    /\ resp.result # None

\* C3: every response to a successfully parsed request carries the id of that
\* request, null when the request has none, for success and error outcomes.
C3_ResponseCarriesRequestId ==
    (Writing /\ ParseOk(cur)) => resp.id = LineId(cur)

\* An error response to a request with a non-null id is being written.
C3_Witness ==
    /\ pcSrv = "flush"
    /\ ParseOk(cur)
    /\ cur.id = "2"
    /\ resp.id = "2"
    /\ resp.error # None

\* C4: after any of the three shutdown triggers (end of input, a $/shutdown
\* request, the interrupt) the read loop eventually stops.
C4_TriggersStopLoop ==
    /\ [](eof => <>(pcSrv = "done"))
    /\ []((Handling /\ cur.method = "$/shutdown") => <>(pcSrv = "done"))
    /\ [](Interrupted => <>(pcSrv = "done"))

\* C5: once the response to a $/shutdown request has been written, no further
\* line is dispatched or answered.
C5_NoDispatchAfterShutdown ==
    shutdownAnswered => pcSrv \in {"select", "done"}

\* C6: the gateway never blocks forever while handling a line: whenever it is
\* handling a line, the server task has a step it can take.
C6_NeverBlocksHandling ==
    Handling => ENABLED ServerNext

\* C7: responses never interleave on stdout: stdout holds, in order, the body
\* and the newline of response 1, 2, ..., all written by the server task, and
\* no diagnostic is written to it.
C7_SingleWriter ==
    \A i \in DOMAIN out :
        /\ out[i].w = "server"
        /\ out[i].n = (i + 1) \div 2
        /\ out[i].part = (IF i % 2 = 1 THEN "json" ELSE "nl")

\* The second response is half written while main and the server task have
\* both emitted diagnostics.
C7_Witness ==
    /\ Len(out) = 3
    /\ pcSrv = "write_nl"
    /\ Interrupted
    /\ errw = {"main", "server"}

\* C8: initialize() returns success iff at least one configured backend was
\* started; every configured backend was attempted whatever the others did.
C8_InitializeResult ==
    Initialized =>
        /\ attempted = config
        /\ (initResult = "ok") <=> (procs # {})
        /\ (initResult = "err") <=> (procs = {})

\* initialize() succeeded although one backend failed to start.
C8_Witness ==
    /\ Initialized
    /\ initResult = "ok"
    /\ procs # config

\* C9: after initialize() the catalog reflects exactly the surviving backends.
C9_CatalogMatchesSessions ==
    Initialized =>
        /\ Owners = clients
        /\ clients = procs
        /\ \A s \in config \ procs : \A k \in DOMAIN tools : tools[k].name # s

\* One backend survived and another failed.
C9_Witness ==
    /\ Initialized
    /\ clients # {}
    /\ clients # config
    /\ Owners = clients

\* C10: tools of distinct backends get distinct prefixed names: no insertion
\* during initialize overwrites another backend's entry.
C10_PrefixedNamesUnique ==
    pcMain \in {"initialize", "wait_ctrlc"} =>
        /\ Cardinality(DOMAIN tools) = Cardinality(clients)
        /\ \A s \in clients : \E k \in DOMAIN tools : tools[k].name = s
        /\ \A k1, k2 \in DOMAIN tools : tools[k1].name = tools[k2].name => k1 = k2

\* Two backends started and both entries are in the catalog.
C10_Witness ==
    /\ Initialized
    /\ {"fs", "git"} \subseteq clients
    /\ {"fs_example_tool", "git_example_tool"} \subseteq DOMAIN tools
    /\ tools["fs_example_tool"].name = "fs"
    /\ tools["git_example_tool"].name = "git"

\* The server task hands a parsed request to process_request in this step.
DispatchStep ==
    /\ pcSrv \in {"select", "send"}
    /\ pcSrv' = "write_body"
    /\ ParseOk(cur')
\* A tools/call whose call_tool returned Ok for a catalog entry is being answered.
CatalogCallAnswered ==
    /\ Writing
    /\ invoked # None
    /\ invoked[1].name # "sanitize_tool_name"
    /\ resp.error = None

\* C11: a call_tool on a prefixed name A_x of the catalog is forwarded to
\* backend A's session as a call of the original tool x with exactly the
\* caller's arguments, and nothing is delivered to any other backend.
C11_CallForwardedToOwner ==
    CatalogCallAnswered =>
        /\ \E m \in childIn :
              /\ PrefixedName(m.backend) = invoked[1].name
              /\ m.tool = "example_tool"
              /\ m.arguments = invoked[1].arguments
        /\ \A m \in childIn : PrefixedName(m.backend) = invoked[1].name

\* C12: a tools/call whose name is neither the builtin nor a key of the
\* catalog is answered with error -32603 whose message carries the requested
\* name, and the step touches no session (map, processes, child stdin).
C12_UnknownToolInternalError ==
    [][(/\ DispatchStep
        /\ invoked' # None
        /\ invoked'[1].name \notin DOMAIN tools \cup {"sanitize_tool_name"})
       => /\ resp'.error = Some([code |-> InternalErrorCode,
                                 message |-> "Tool call failed: Tool not found: "
                                             \o invoked'[1].name])
          /\ resp'.result = None
          /\ UNCHANGED <<clients, procs, childIn>>]_vars

\* The call of "nonexistent" is being answered while a backend session lives.
C12_Witness ==
    /\ pcSrv = "flush"
    /\ invoked # None
    /\ invoked[1].name = "nonexistent"
    /\ resp.error # None
    /\ clients # {}

\* C13: a tools/call with no params, or with params that have no `name`,
\* is answered with error -32602 and call_tool is not invoked for it.
C13_MissingNameInvalidParams ==
    [][(/\ DispatchStep
        /\ cur'.method = "tools/call"
        /\ (~cur'.params.present \/ cur'.params.name = Absent))
       => /\ resp'.error # None
          /\ resp'.error[1].code = InvalidParamsCode
          /\ resp'.result = None
          /\ invoked' = None]_vars

\* The answer to a tools/call whose params lack `name` is being written.
C13_Witness ==
    /\ pcSrv = "flush"
    /\ cur.method = "tools/call"
    /\ cur.params.present
    /\ cur.params.name = Absent
    /\ resp.error # None
    /\ resp.error[1].code = InvalidParamsCode
    /\ invoked = None

\* The aggregator's holder hands a request to process_request in this step.
ApiRequestStep == pcSrv = "idle" /\ nRead' = nRead + 1

\* C14: the builtin sanitize_tool_name is available in every registry state
\* (before initialize, after a failed initialize, after close): called with
\* a string `name` it returns a success whose text is sanitize(name), and the
\* step leaves the catalog and every backend session alone.
C14_BuiltinAlwaysAvailable ==
    [][(/\ ApiRequestStep
        /\ invoked' # None
        /\ invoked'[1].name = "sanitize_tool_name"
        /\ invoked'[1].arguments = "object"
        /\ invoked'[1].argname # <<>>)
       => /\ resp' = Success(LineId(cur'),
                             CallResult(sanitize_tool_name(invoked'[1].argname)))
          /\ UNCHANGED <<clients, procs, tools, childIn>>]_vars

\* The builtin answered "a_b" after a close() emptied a registry that had
\* held a session.
C14_Witness ==
    /\ nClose >= 1
    /\ initResult = "ok"
    /\ tools = EmptyMap
    /\ invoked # None
    /\ invoked[1].name = "sanitize_tool_name"
    /\ resp.result # None
    /\ resp.result[1].text = <<"a", "_", "b">>

\* Requests written to a child whose reply has not been read back.
PendingCalls == childIn
\* close() has returned to main.
CloseReturned == pcMain \in {"join", "exit"}

\* C15: after close() returns, the session map and the catalog are empty and
\* no call is pending; close() attempted kill() on every session that was in
\* the map, whichever of them failed.
C15_CloseDrains ==
    /\ [](CloseReturned =>
            /\ clients = {}
            /\ tools = EmptyMap
            /\ PendingCalls = {}
            /\ nClose = 1)
    /\ [][(pcMain = "close_clients" /\ pcMain' = "close_tools")
           => /\ killAttempted' = clients
              /\ procs' \cap clients = {}]_vars

\* close() has returned after calling kill() on both of two sessions.
C15_Witness ==
    /\ CloseReturned
    /\ killAttempted = {"fs", "git"}
    /\ procs = {}
    /\ clients = {}
    /\ tools = EmptyMap

\* C16: close() called again after a completed close() attempts no kill(),
\* returns (its second half is enabled) and leaves the session map and the
\* catalog empty, however many times it is called.
C16_CloseIdempotent ==
    /\ []((nClose >= 1 /\ pcMain = "api") => (clients = {} /\ tools = EmptyMap))
    /\ []((nClose >= 1 /\ pcMain = "api_close_tools") => ENABLED ApiCloseTools)
    /\ [][(nClose >= 1 /\ pcMain = "api" /\ pcMain' = "api_close_tools")
           => /\ killAttempted' = {}
              /\ clients' = {}
              /\ procs' = procs]_vars

\* A second close() has returned on a registry that had held sessions.
C16_Witness ==
    /\ nClose >= 2
    /\ pcMain = "api"
    /\ initResult = "ok"
    /\ clients = {}
    /\ tools = EmptyMap
    /\ killAttempted = {}

\* C17: tools/list never answers with an error, whatever the registry holds
\* (an empty catalog included), and its list has every name that is in the
\* catalog when it is called.
C17_ListToolsAlwaysSucceeds ==
    [][(ApiRequestStep /\ cur'.method = "tools/list")
       => /\ resp'.error = None
          /\ resp'.result # None
          /\ resp'.result[1].type = "tools"
          /\ DOMAIN tools \subseteq resp'.result[1].tools]_vars

\* tools/list answered with the entries of two backends.
C17_Witness ==
    /\ pcMain = "api"
    /\ cur.method = "tools/list"
    /\ resp.result # None
    /\ DOMAIN tools = {"fs_example_tool", "git_example_tool"}
    /\ DOMAIN tools \subseteq resp.result[1].tools

\* The methods process_request matches by name.
KnownMethods == {"$/initialize", "$/shutdown", "$/exit", "tools/list", "tools/call"}

\* C18: when initialize() fails because no backend started (none configured
\* included), the server task is started all the same and serves requests:
\* tools/list offers only the builtin and any other tool name is answered
\* as not found.
C18_FailedInitializeStillServes ==
    /\ [][(pcMain = "initialize" /\ pcMain' = "wait_ctrlc" /\ initResult' = "err")
           => pcSrv' = "select"]_vars
    /\ []((initResult = "err" /\ ~Interrupted) => (clients = {} /\ tools = EmptyMap))
    /\ [][(DispatchStep /\ initResult = "err")
           => /\ cur'.method = "tools/list" =>
                    resp' = Success(LineId(cur'), ToolsResult({"sanitize_tool_name"}))
              /\ (invoked' # None /\ invoked'[1].name # "sanitize_tool_name") =>
                    resp' = Error(LineId(cur'), InternalErrorCode,
                                  "Tool call failed: Tool not found: " \o invoked'[1].name)]_vars

\* Every configured backend failed to start and tools/list is answered with
\* the builtin alone.
C18_Witness ==
    /\ initResult = "err"
    /\ config # {}
    /\ pcSrv = "flush"
    /\ cur.method = "tools/list"
    /\ resp.result # None
    /\ resp.result[1].tools = {"sanitize_tool_name"}

\* C19: no step of the server task (a request of any method, a malformed
\* line) changes the membership of the session map or of the catalog; they
\* change only in steps of initialize() and close().
C19_RequestsKeepRegistry ==
    /\ [][ServerNext => (clients' = clients /\ DOMAIN tools' = DOMAIN tools)]_vars
    /\ [][(clients' # clients \/ DOMAIN tools' # DOMAIN tools)
           => pcMain \in {"initialize", "close_clients", "close_tools"}]_vars

\* A tools/call on a catalog entry has been handled and both maps still
\* hold their entries.
C19_Witness ==
    /\ pcSrv = "flush"
    /\ invoked # None
    /\ invoked[1].name \in DOMAIN tools
    /\ clients # {}

\* C20: a request whose method is none of $/initialize, $/shutdown, $/exit,
\* tools/list, tools/call is answered with error -32601, signals no shutdown,
\* and once it is answered the loop selects again.
C20_UnknownMethodNotFound ==
    /\ [][(DispatchStep /\ cur'.method \notin KnownMethods)
           => /\ resp'.error # None
              /\ resp'.error[1].code = MethodNotFoundCode
              /\ resp'.result = None
              /\ chan' = chan]_vars
    /\ [][(pcSrv = "flush" /\ ParseOk(cur) /\ cur.method \notin KnownMethods
            /\ pcSrv' # pcSrv)
           => pcSrv' = "select"]_vars

\* The answer to unknown/method is being written.
C20_Witness ==
    /\ pcSrv = "flush"
    /\ cur.method = "unknown/method"
    /\ resp.error # None
    /\ resp.error[1].code = MethodNotFoundCode

\* The codes of the JSON-RPC errors the gateway uses.
ErrorCodes == {ParseErrorCode, MethodNotFoundCode, InvalidParamsCode, InternalErrorCode}

\* C21: every error response being written carries a code from {-32700,
\* -32601, -32602, -32603}, and a failure reported by the aggregator (the
\* request reached call_tool and came back Err) carries -32603.
C21_ErrorCodesFromSet ==
    (Writing /\ resp.error # None) =>
        /\ resp.error[1].code \in ErrorCodes
        /\ invoked # None => resp.error[1].code = InternalErrorCode
        /\ ~ParseOk(cur) <=> resp.error[1].code = ParseErrorCode

\* The aggregator's "tool not found" is being written as -32603.
C21_Witness ==
    /\ pcSrv = "write_nl"
    /\ invoked # None
    /\ resp.error # None
    /\ resp.error[1].code = InternalErrorCode
    /\ parseErrorAnswered

\* C22: every response the gateway builds has jsonrpc "2.0" and exactly one
\* of result and error: a success has a result and no error, an error has
\* an error and no result.
C22_ResultXorError ==
    Writing =>
        /\ resp.jsonrpc = "2.0"
        /\ (resp.result = None) # (resp.error = None)

\* An error response is built after a success response was written.
C22_Witness ==
    /\ pcSrv = "write_body"
    /\ nWritten >= 1
    /\ shutdownAnswered
    /\ resp.error # None
    /\ resp.result = None

\* C28: responses are written in the order the lines were read: a line is
\* read only when every line read before it has its response flushed, and
\* the n-th response written to stdout answers the n-th line read.
C28_ResponsesInReadOrder ==
    /\ nRead = nWritten + (IF Handling THEN 1 ELSE 0)
    /\ \A i \in DOMAIN out : out[i].line = out[i].n
    /\ \A i \in DOMAIN out : out[i].n <= nRead

\* The responses to two lines have been written, one after the other.
C28_Witness ==
    /\ nRead = 2
    /\ nWritten = 2
    /\ Len(out) = 4
    /\ out[4].line = 2

\* C25: a tools/call whose params.name is present and is not a string is
\* rejected with -32602 and never reaches call_tool.
C25_NonStringNameRejected ==
    [][(/\ ApiRequestStep
        /\ cur'.method = "tools/call"
        /\ cur'.params.present
        /\ cur'.params.name = NonString)
       => /\ resp'.error # None
          /\ resp'.error[1].code = InvalidParamsCode
          /\ invoked' = None]_vars

\* C26: while close() runs next to the server task, no tools/list reports
\* and no tools/call succeeds for a catalog entry whose owning session is
\* no longer in the session map.
C26_NoToolWithoutSession ==
    [][DispatchStep
       => /\ cur'.method = "tools/list" =>
                \A k \in DOMAIN tools :
                    k \in resp'.result[1].tools => tools[k].name \in clients
          /\ (invoked' # None /\ invoked'[1].name \in DOMAIN tools
               /\ resp'.error = None) =>
                tools[invoked'[1].name].name \in clients]_vars

\* The server loop has stopped after it answered a $/shutdown, or at the end
\* of an input whose every line it had read.
StoppedByEofOrShutdown ==
    /\ pcSrv = "done"
    /\ \/ shutdownAnswered
       \/ eof /\ stdin = <<>> /\ nRead = arrived

\* C29: once the server loop has stopped (end of input, $/shutdown), main
\* runs close() and exits, with no interrupt needed.
C29_StopLeadsToExit ==
    StoppedByEofOrShutdown ~> (pcMain = "exit" /\ nClose = 1)

\* C23: sanitize is idempotent and dash-free: its output has no `-`, has the
\* length of its input, equals the input when the input has no `-`, and
\* sanitizing the output again gives the output back.
C23_SanitizeIdempotent ==
    (invoked # None /\ resp.result # None) =>
        LET x == invoked[1].argname
            y == resp.result[1].text
        IN  /\ Len(y) = Len(x)
            /\ \A i \in DOMAIN y : y[i] # "-"
            /\ (\A i \in DOMAIN x : x[i] # "-") => y = x
            /\ nRead >= 2 => y = x
            /\ sanitize_tool_name(y) = y

\* A name has been sanitized and its output, _a_, sanitized again.
C23_Witness ==
    /\ nRead = 2
    /\ invoked # None
    /\ invoked[1].argname = <<"_", "a", "_">>
    /\ resp.result # None
    /\ resp.result[1].text = <<"_", "a", "_">>

\* C24: a call on a catalog entry is resolved with the reply its backend
\* gave to that very request (matched by request id), whatever the order in
\* which the backend replies to outstanding calls.
C24_ResolvedWithOwnReply ==
    [][(/\ DispatchStep
        /\ invoked' # None
        /\ invoked'[1].name \in DOMAIN tools)
       => /\ ReplyRead(tools, invoked'[1]) # None
          /\ resp'.result = Some(CallResult(ReplyRead(tools, invoked'[1])[1]))]_vars

\* Task t is inside a registry operation.
Busy(t) == task[t].pc # "idle"
\* Task t is waiting for, or about to take, the session-map lock.
WantsClients(t) ==
    \/ task[t].pc = "init_lock"
    \/ task[t].pc = "close_lock1" /\ CloseLockOrder[1] = "clients"
    \/ task[t].pc = "close_lock2" /\ CloseLockOrder[2] = "clients"

\* C27: initialize, get_tools, call_tool and close cannot deadlock: while a
\* task is inside one of them some task inside one can step; no task asks
\* for the session-map lock while it holds the catalog lock; and every lock
\* taken is released and every operation returns.
C27_NoDeadlock ==
    /\ []((\E t \in Callers : Busy(t)) => ENABLED (\E t \in Callers : LkContinue(t)))
    /\ [](\A t \in Callers : WantsClients(t) => lockTools # t)
    /\ \A t \in Callers : (lockClients = t) ~> (lockClients # t)
    /\ \A t \in Callers : (lockTools = t) ~> (lockTools # t)
    /\ \A t \in Callers : Busy(t) ~> ~Busy(t)

\* close() on main holds the session-map lock and waits for the catalog lock
\* while the server task reads the catalog under it.
C27_Witness ==
    /\ task["main"].pc = "close_lock2"
    /\ lockClients = "main"
    /\ lockTools = "server"
    /\ task["server"].pc = "read"

====
